---- MODULE Spec2Model ----
(***************************************************************************)
(* PixShop editor: the App component's edit history, mask layers, crop     *)
(* selection, prompt ledger and the busy flag, as a state machine whose    *)
(* actions are the component's event handlers and the completions of its   *)
(* asynchronous calls.  history is a 1-based sequence here; historyIndex   *)
(* keeps the 0-based value of the source (-1 when the history is empty).   *)
(***************************************************************************)
EXTENDS Integers, Sequences, FiniteSets, TLC

\* ---- bounds ----
\* number of File objects (versions) the run may create
MaxVersions == 3

\* ---- small input sets ----
Samples == {1, 2}
StrokeCovers == {{1, 2}}
\* rasters the segmentation call may return: the samples it paints white and the
\* samples with alpha > 0 (the prompt asks for white on solid black)
MaskRasters == {[white |-> {2}, opaque |-> {1, 2}]}
CropRects == {<<2, 2, 0, 0>>}
ImageSizes == {<<2, 2>>}
PromptTexts == {"", "p"}
FilterPrompts == {"f"}
AdjustPrompts == {"a"}
Presets == {"b", "w"}
CustomTexts == {"", "c"}
PanelTabs == {"adjust", "retouch"}

\* inputs of the output-size and upload-warning flows
UploadSizes == {<<2, 2>>, <<3000, 2000>>, <<1000, 2049>>, <<5000, 1>>}
CropImageSizes == {<<4, 2>>}
CropViewports == {<<2, 1>>, <<8, 4>>}
CropAreas == {<<1, 1, 1, 0>>, <<2, 1, 0, 0>>}
CropSelections == {<<1, 1, 0, 0>>, <<1, 0, 0, 0>>, <<0, 1, 0, 0>>}
FieldTexts == {<<>>, <<7>>}
SizeTabs == {"crop", "adjust"}

\* sizes at which the viewport lays the image out
ViewportSizes == {<<300, 150>>}

\* inputs of the mask tools
MaskViewports == {<<800, 600>>, <<400, 300>>}
MaskImageSizes == {<<1600, 1200>>}
MaskTabs == {"retouch", "adjust", "crop"}
BrushCovers == {{1}, {2}, {1, 2}}
ObjectRasters ==
    {[white |-> {2}, opaque |-> {1, 2}],
     [white |-> {2}, opaque |-> {2}],
     [white |-> {1}, opaque |-> {1}]}

\* inputs of handleApiResponse
BlockReasons == {"", "SAFETY"}
FinishReasons == {"", "STOP", "MAX_TOKENS"}
Parts == {[text |-> "t"], [inlineData |-> "d1"], [inlineData |-> "d2"]}
PartLists == {<<>>} \cup {<<a>> : a \in Parts} \cup {<<a, b>> : a \in Parts, b \in Parts}
Responses ==
    [blockReason : BlockReasons, candidates : {<<>>}] \cup
    [blockReason : BlockReasons,
     candidates : {<<[parts |-> ps, finishReason |-> f]>> : ps \in PartLists, f \in FinishReasons}]

\* inputs of the proxy's handler: the request it receives ...
Methods == {"POST", "GET"}
RequestBodies ==
    {[present |-> FALSE]} \cup
    [present : {TRUE}, model : {"", "m"}, contents : {"", "c"}]
Requests == [method : Methods, hasKey : BOOLEAN, body : RequestBodies]

\* ... and what the upstream does: fetch throws, or answers with a status and a
\* body that is JSON text or not
UpstreamStatuses == {200, 400, 429, 503}
JsonValues ==
    {[candidates |-> "c"],
     [error |-> [message |-> "quota"]],
     [error |-> [code |-> "e"]]}
UpstreamBodies == {[json |-> FALSE]} \cup [json : {TRUE}, value : JsonValues]
Upstreams ==
    {[kind |-> "throws"]} \cup
    [kind : {"answer"}, status : UpstreamStatuses, body : UpstreamBodies]

Tabs == {"retouch", "adjust", "filters", "crop"}
MaskTools == {"brush", "magic-preserve", "eraser"}
Kinds == {"retouch", "adjust", "filters"}

\* error holds a message or null; the text of the message is not modelled
NoError == "none"
SomeError == "error"
NoCrop == <<>>
NoSize == <<>>
NoReq == [kind |-> "none"]
NoFile == <<>>
\* parseInt gives <<n>> for the number n
NaN == <<>>
NoResponse == [blockReason |-> "", candidates |-> <<>>]
NoOutcome == [kind |-> "none"]
NoMaskFile == [size |-> <<>>, alpha |-> {}]
NoRequest == [method |-> "none"]
NoUpstream == [kind |-> "none"]
NoReply == [status |-> 0]

\* const MAX_IMAGE_DIMENSION
MAX_IMAGE_DIMENSION == 2048

\* window.devicePixelRatio || 1, on a display of ratio 1
devicePixelRatio == 1

\* the raster the model returns, before resizeImage
AiRasterSize == <<1024, 1024>>

\* width and height of a canvas element whose attributes were never assigned
DefaultCanvasSize == <<300, 150>>

NoCanvas == <<>>

\* no crop has been drawn
NoDraw == [canvas |-> <<>>]

\* useState<string | null>(null) of the selected preset
NoPreset == ""

VARIABLES
    history,          \* useState<File[]>            part_000:141
    historyIndex,     \* useState<number>(-1)        part_000:142
    prompt,           \* part_000:143
    isLoading,        \* part_000:144
    error,            \* part_000:146
    activeTab,        \* part_000:148
    crop,             \* part_000:150
    completedCrop,    \* part_000:151
    outputSize,       \* part_000:154
    isDrawing,        \* part_000:163
    maskTool,         \* part_000:165
    hasEditMask,      \* part_000:166
    hasPreserveMask,  \* part_000:167
    promptHistory,    \* part_000:169
    editMask,         \* samples with alpha > 0 of the edit canvas      part_000:159
    preserveMask,     \* samples with alpha > 0 of the preserve canvas  part_000:160
    pending,          \* the outstanding service call and the closure of the handler awaiting it
    nextId,           \* identity of the next File object created
    lastOp,           \* the handler that ran last and the branch it took
    dims,             \* dims[f]: pixel width and height of the raster in File f
    isSizeWarningModalOpen,  \* part_000:156
    fileToProcess,    \* part_000:157 (the natural size of the file, or NoFile)
    response,         \* the GenerateContentResponse given to handleApiResponse
    outcome,          \* what handleApiResponse returned or threw
    displaySize,      \* imgRef.current.getBoundingClientRect(): width and height
    canvasSize,       \* width and height attributes of the two mask canvases, or NoCanvas
    request,          \* the proxy: the HTTP request given to handler           part_003:7
    geminiResponse,   \* the proxy: what fetch(GEMINI_API_URL) does             part_003:35
    proxyResponse,    \* the proxy: the status and JSON body handler answers with
    fetched,          \* the proxy: whether handler called fetch(GEMINI_API_URL)
    cropDraw,         \* the drawImage call and canvas of handleApplyCrop's last run  part_000:471
    selectedPresetPrompt,    \* AdjustmentPanel.tsx:16
    customAdjustmentPrompt   \* part_000:171

vars == <<history, historyIndex, prompt, isLoading, error, activeTab, crop,
          completedCrop, outputSize, isDrawing, maskTool, hasEditMask,
          hasPreserveMask, promptHistory, editMask, preserveMask, pending,
          nextId, lastOp, dims, isSizeWarningModalOpen, fileToProcess,
          response, outcome, displaySize, canvasSize, request, geminiResponse,
          proxyResponse, fetched, cropDraw, selectedPresetPrompt,
          customAdjustmentPrompt>>

sizeWarningVars == <<isSizeWarningModalOpen, fileToProcess>>

apiVars == <<response, outcome>>

proxyVars == <<request, geminiResponse, proxyResponse, fetched>>

\* ---- derived values of a render ----
ImageAt(h, i) == IF i >= 0 /\ i < Len(h) THEN h[i + 1] ELSE 0

currentImage == ImageAt(history, historyIndex)

originalImage == ImageAt(history, 0)

canUndo == historyIndex > 0

canRedo == historyIndex < Len(history) - 1

\* renderContent shows the error modal, the start screen or the editor
EditorShown == error = NoError /\ currentImage # 0

StartScreenShown == error = NoError /\ currentImage = 0

\* the two mask canvases are rendered only inside the editor on the retouch tab
CanvasesMounted == EditorShown /\ activeTab = "retouch"

\* the spinner overlay covers the image area while isLoading
ImageAreaReachable == EditorShown /\ ~isLoading

\* the size warning lies over the page while it is open
SizeWarningAway == ~isSizeWarningModalOpen

\* a control outside the canvas is clicked with the pointer off the canvas
\* (onMouseLeave = handlePointerUp has ended any stroke by then) and with no
\* size warning over the page
PointerAway == ~isDrawing /\ SizeWarningAway

trim(s) == IF s = " " THEN "" ELSE s

\* AdjustmentPanel is rendered only inside the editor on the adjust tab
AdjustmentPanelMounted == EditorShown /\ activeTab = "adjust"

\* ---- canvas contents across a render ----
\* A canvas keeps its bitmap only while it stays mounted and the image under
\* it is the same; a new canvas is blank, and syncCanvasDimensions assigns
\* width and height (which resets the bitmap) whenever the image changes.
\* the <img> of imageDisplay (ref imgRef, key currentImageUrl) stays the same
\* element while the editor shows a tab other than crop and the image is the same
ImageElementKept ==
    /\ EditorShown /\ activeTab # "crop"
    /\ EditorShown' /\ activeTab' # "crop"
    /\ currentImage' = currentImage

\* A new <img> fires onLoad = syncCanvasDimensions (taken to finish within the
\* step); canvases created under an <img> that stays get no call of it and keep
\* the width and height a canvas element starts with.
Repaint(e, p) ==
    LET keep == CanvasesMounted /\ CanvasesMounted' /\ currentImage' = currentImage
    IN  /\ editMask' = IF keep THEN e ELSE {}
        /\ preserveMask' = IF keep THEN p ELSE {}
        /\ canvasSize' = IF ~CanvasesMounted' THEN NoCanvas
                          ELSE IF keep THEN canvasSize
                          ELSE IF ImageElementKept THEN DefaultCanvasSize
                          ELSE displaySize
        /\ selectedPresetPrompt' = IF AdjustmentPanelMounted /\ AdjustmentPanelMounted'
                                   THEN selectedPresetPrompt
                                   ELSE NoPreset

KeepCanvases == Repaint(editMask, preserveMask)

\* clearMasks: clears whichever canvases exist and resets both flags
clearMasks ==
    /\ hasEditMask' = FALSE
    /\ hasPreserveMask' = FALSE
    /\ Repaint({}, {})

\* mutant: appends without discarding the versions after i
addImageToHistory_NoTruncate(h, i, newImageFile) ==
    LET newHistory == Append(h, newImageFile)
    IN  /\ history' = newHistory
        /\ historyIndex' = Len(newHistory) - 1
        /\ crop' = NoCrop
        /\ completedCrop' = NoCrop

\* mutant: reads the history and index of the moment of the call, not the closure's
addImageToHistory_Current(h, i, newImageFile) ==
    LET newHistory == Append(SubSeq(history, 1, historyIndex + 1), newImageFile)
    IN  /\ history' = newHistory
        /\ historyIndex' = Len(newHistory) - 1
        /\ crop' = NoCrop
        /\ completedCrop' = NoCrop

\* mutant: the new version takes the place of the version it was made from
addImageToHistory_ReplacesBase(h, i, newImageFile) ==
    LET newHistory == Append(SubSeq(h, 1, i), newImageFile)
    IN  /\ history' = newHistory
        /\ historyIndex' = Len(newHistory) - 1
        /\ crop' = NoCrop
        /\ completedCrop' = NoCrop

\* addImageToHistory as closed over (h, i) by the render in which the handler was created
addImageToHistory(h, i, newImageFile) ==
    LET newHistory == Append(SubSeq(h, 1, i + 1), newImageFile)
    IN  /\ history' = newHistory
        /\ historyIndex' = Len(newHistory) - 1
        /\ crop' = NoCrop
        /\ completedCrop' = NoCrop

\* mutant: the ledger keeps only the newest entry
addPromptToHistory_Replace(type, text) ==
    promptHistory' = <<[type |-> type, prompt |-> text]>>

\* mutant: the entry records the kind without the instruction
addPromptToHistory_NoText(type, text) ==
    promptHistory' = Append(promptHistory, [type |-> type, prompt |-> ""])

addPromptToHistory(type, text) ==
    promptHistory' = Append(promptHistory, [type |-> type, prompt |-> text])

AppInit ==
    /\ history = <<>>
    /\ historyIndex = -1
    /\ prompt = ""
    /\ isLoading = FALSE
    /\ error = NoError
    /\ activeTab = "retouch"
    /\ crop = NoCrop
    /\ completedCrop = NoCrop
    /\ outputSize = NoSize
    /\ isDrawing = FALSE
    /\ maskTool = "brush"
    /\ hasEditMask = FALSE
    /\ hasPreserveMask = FALSE
    /\ promptHistory = <<>>
    /\ editMask = {}
    /\ preserveMask = {}
    /\ pending = NoReq
    /\ nextId = 1
    /\ lastOp = "init"
    /\ dims = <<>>
    /\ isSizeWarningModalOpen = FALSE
    /\ fileToProcess = NoFile
    /\ canvasSize = NoCanvas
    /\ cropDraw = NoDraw
    /\ selectedPresetPrompt = NoPreset
    /\ customAdjustmentPrompt = ""

\* no request has reached the proxy
ProxyIdle ==
    /\ request = NoRequest
    /\ geminiResponse = NoUpstream
    /\ proxyResponse = NoReply
    /\ fetched = FALSE

Init ==
    /\ AppInit
    /\ ProxyIdle
    /\ displaySize = DefaultCanvasSize
    /\ response = NoResponse
    /\ outcome = NoOutcome

\* ---- upload ----
proceedWithImageUpload(file, size) ==
    /\ dims' = Append(dims, size)
    /\ outputSize' = size
    /\ history' = <<file>>
    /\ historyIndex' = 0
    /\ activeTab' = "retouch"
    /\ crop' = NoCrop
    /\ completedCrop' = NoCrop
    /\ promptHistory' = <<>>
    /\ customAdjustmentPrompt' = ""
    /\ clearMasks

\* Math.round of the non-negative quotient n / d
MathRound(n, d) == (2 * n + d) \div (2 * d)

\* resizeImageFile: the canvas size it computes; toBlob gives null for a canvas
\* without pixels and the promise is rejected (NoFile)
resizeImageFile(size, maxSize) ==
    LET width == size[1]
        height == size[2]
        canvas == IF width > maxSize \/ height > maxSize
                  THEN IF width > height
                       THEN <<maxSize, MathRound(maxSize * height, width)>>
                       ELSE <<MathRound(maxSize * width, height), maxSize>>
                  ELSE <<width, height>>
    IN  IF canvas[1] = 0 \/ canvas[2] = 0 THEN NoFile ELSE canvas

\* the start screen's file input; readable = getImageDimensions resolves
handleImageUpload(size, readable) ==
    /\ StartScreenShown
    /\ SizeWarningAway
    /\ nextId <= MaxVersions
    /\ UNCHANGED <<apiVars, displaySize, proxyVars, cropDraw>>
    /\ UNCHANGED <<prompt, isLoading, isDrawing, maskTool, pending>>
    /\ IF ~readable
       THEN /\ error' = SomeError
            /\ lastOp' = "failed"
            /\ UNCHANGED <<history, historyIndex, activeTab, crop, completedCrop,
                           outputSize, promptHistory, customAdjustmentPrompt, hasEditMask, hasPreserveMask,
                           nextId, dims, sizeWarningVars>>
            /\ KeepCanvases
       ELSE IF size[1] > MAX_IMAGE_DIMENSION \/ size[2] > MAX_IMAGE_DIMENSION
       THEN /\ fileToProcess' = size
            /\ isSizeWarningModalOpen' = TRUE
            /\ error' = NoError
            /\ lastOp' = "sizeWarning"
            /\ UNCHANGED <<history, historyIndex, activeTab, crop, completedCrop,
                           outputSize, promptHistory, customAdjustmentPrompt, hasEditMask, hasPreserveMask,
                           nextId, dims>>
            /\ KeepCanvases
       ELSE /\ nextId' = nextId + 1
            /\ error' = NoError
            /\ lastOp' = "upload"
            /\ UNCHANGED sizeWarningVars
            /\ proceedWithImageUpload(nextId, size)

\* the warning's downscale button
handleConfirmResize ==
    /\ isSizeWarningModalOpen
    /\ UNCHANGED <<apiVars, displaySize, proxyVars, cropDraw>>
    /\ UNCHANGED <<prompt, isLoading, isDrawing, maskTool, pending>>
    /\ IF fileToProcess = NoFile
       THEN /\ lastOp' = "other"
            /\ UNCHANGED <<history, historyIndex, error, activeTab, crop, completedCrop,
                           outputSize, promptHistory, customAdjustmentPrompt, hasEditMask, hasPreserveMask,
                           nextId, dims, sizeWarningVars>>
            /\ KeepCanvases
       ELSE LET resizedFile == resizeImageFile(fileToProcess, MAX_IMAGE_DIMENSION)
            IN  /\ isSizeWarningModalOpen' = FALSE
                /\ fileToProcess' = NoFile
                /\ IF resizedFile = NoFile
                   THEN /\ error' = SomeError
                        /\ lastOp' = "failed"
                        /\ UNCHANGED <<history, historyIndex, activeTab, crop,
                                       completedCrop, outputSize, promptHistory, customAdjustmentPrompt,
                                       hasEditMask, hasPreserveMask, nextId, dims>>
                        /\ KeepCanvases
                   ELSE /\ nextId <= MaxVersions
                        /\ nextId' = nextId + 1
                        /\ error' = error
                        /\ lastOp' = "uploadResized"
                        /\ proceedWithImageUpload(nextId, resizedFile)

\* the warning's continue button
handleContinueAnyway ==
    /\ isSizeWarningModalOpen
    /\ UNCHANGED <<apiVars, displaySize, proxyVars, cropDraw>>
    /\ UNCHANGED <<prompt, isLoading, isDrawing, maskTool, pending>>
    /\ IF fileToProcess = NoFile
       THEN /\ lastOp' = "other"
            /\ UNCHANGED <<history, historyIndex, error, activeTab, crop, completedCrop,
                           outputSize, promptHistory, customAdjustmentPrompt, hasEditMask, hasPreserveMask,
                           nextId, dims, sizeWarningVars>>
            /\ KeepCanvases
       ELSE /\ nextId <= MaxVersions
            /\ isSizeWarningModalOpen' = FALSE
            /\ fileToProcess' = NoFile
            /\ nextId' = nextId + 1
            /\ error' = error
            /\ lastOp' = "upload"
            /\ proceedWithImageUpload(nextId, fileToProcess)

\* ImageSizeWarningModal onClose
closeSizeWarning ==
    /\ isSizeWarningModalOpen
    /\ isSizeWarningModalOpen' = FALSE
    /\ fileToProcess' = NoFile
    /\ lastOp' = "other"
    /\ UNCHANGED <<dims, apiVars, displaySize, proxyVars, cropDraw, customAdjustmentPrompt>>
    /\ UNCHANGED <<history, historyIndex, prompt, isLoading, error, activeTab, crop,
                   completedCrop, outputSize, isDrawing, maskTool, hasEditMask,
                   hasPreserveMask, promptHistory, pending, nextId>>
    /\ KeepCanvases

\* mutant: leaves the prompt ledger as it is
handleUploadNew_KeepsLedger ==
    /\ EditorShown
    /\ PointerAway
    /\ UNCHANGED <<dims, sizeWarningVars, apiVars, displaySize, proxyVars, cropDraw>>
    /\ UNCHANGED <<isLoading, activeTab, crop, completedCrop, isDrawing, maskTool,
                   pending, nextId, promptHistory>>
    /\ lastOp' = "uploadNew"
    /\ history' = <<>>
    /\ historyIndex' = -1
    /\ error' = NoError
    /\ prompt' = ""
    /\ outputSize' = NoSize
    /\ customAdjustmentPrompt' = ""
    /\ clearMasks

handleUploadNew ==
    /\ EditorShown
    /\ PointerAway
    /\ UNCHANGED <<dims, sizeWarningVars, apiVars, displaySize, proxyVars, cropDraw>>
    /\ UNCHANGED <<isLoading, activeTab, crop, completedCrop, isDrawing, maskTool,
                   pending, nextId>>
    /\ lastOp' = "uploadNew"
    /\ history' = <<>>
    /\ historyIndex' = -1
    /\ error' = NoError
    /\ prompt' = ""
    /\ outputSize' = NoSize
    /\ promptHistory' = <<>>
    /\ customAdjustmentPrompt' = ""
    /\ clearMasks

\* ---- navigation ----
\* mutant: no test of canUndo
handleUndo_NoGuard ==
    /\ EditorShown
    /\ PointerAway
    /\ UNCHANGED <<dims, sizeWarningVars, apiVars, displaySize, proxyVars, cropDraw, customAdjustmentPrompt>>
    /\ UNCHANGED <<history, prompt, isLoading, error, activeTab, crop, completedCrop,
                   outputSize, isDrawing, maskTool, promptHistory, pending, nextId>>
    /\ lastOp' = "undo"
    /\ historyIndex' = historyIndex - 1
    /\ clearMasks

\* mutant: clearMasks is called outside the test of canUndo
handleUndo_ClearsAlways ==
    /\ EditorShown
    /\ PointerAway
    /\ UNCHANGED <<dims, sizeWarningVars, apiVars, displaySize, proxyVars, cropDraw, customAdjustmentPrompt>>
    /\ UNCHANGED <<history, prompt, isLoading, error, activeTab, crop, completedCrop,
                   outputSize, isDrawing, maskTool, promptHistory, pending, nextId>>
    /\ lastOp' = IF canUndo THEN "undo" ELSE "undoNoop"
    /\ historyIndex' = IF canUndo THEN historyIndex - 1 ELSE historyIndex
    /\ clearMasks

handleUndo ==
    /\ EditorShown
    /\ PointerAway
    /\ UNCHANGED <<dims, sizeWarningVars, apiVars, displaySize, proxyVars, cropDraw, customAdjustmentPrompt>>
    /\ UNCHANGED <<history, prompt, isLoading, error, activeTab, crop, completedCrop,
                   outputSize, isDrawing, maskTool, promptHistory, pending, nextId>>
    /\ IF canUndo
       THEN /\ lastOp' = "undo"
            /\ historyIndex' = historyIndex - 1
            /\ clearMasks
       ELSE /\ lastOp' = "undoNoop"
            /\ UNCHANGED <<historyIndex, hasEditMask, hasPreserveMask>>
            /\ KeepCanvases

\* mutant: redo jumps to the newest version
handleRedo_ToLast ==
    /\ EditorShown
    /\ PointerAway
    /\ UNCHANGED <<dims, sizeWarningVars, apiVars, displaySize, proxyVars, cropDraw, customAdjustmentPrompt>>
    /\ UNCHANGED <<history, prompt, isLoading, error, activeTab, crop, completedCrop,
                   outputSize, isDrawing, maskTool, promptHistory, pending, nextId>>
    /\ IF canRedo
       THEN /\ lastOp' = "redo"
            /\ historyIndex' = Len(history) - 1
            /\ clearMasks
       ELSE /\ lastOp' = "redoNoop"
            /\ UNCHANGED <<historyIndex, hasEditMask, hasPreserveMask>>
            /\ KeepCanvases

handleRedo ==
    /\ EditorShown
    /\ PointerAway
    /\ UNCHANGED <<dims, sizeWarningVars, apiVars, displaySize, proxyVars, cropDraw, customAdjustmentPrompt>>
    /\ UNCHANGED <<history, prompt, isLoading, error, activeTab, crop, completedCrop,
                   outputSize, isDrawing, maskTool, promptHistory, pending, nextId>>
    /\ IF canRedo
       THEN /\ lastOp' = "redo"
            /\ historyIndex' = historyIndex + 1
            /\ clearMasks
       ELSE /\ lastOp' = "redoNoop"
            /\ UNCHANGED <<historyIndex, hasEditMask, hasPreserveMask>>
            /\ KeepCanvases

\* mutant: reset also drops the versions after the first
handleReset_Truncates ==
    /\ EditorShown
    /\ PointerAway
    /\ canUndo
    /\ Len(history) > 0
    /\ UNCHANGED <<dims, sizeWarningVars, apiVars, displaySize, proxyVars, cropDraw, customAdjustmentPrompt>>
    /\ UNCHANGED <<prompt, isLoading, activeTab, crop, completedCrop,
                   outputSize, isDrawing, maskTool, promptHistory, pending, nextId>>
    /\ lastOp' = "reset"
    /\ history' = SubSeq(history, 1, 1)
    /\ historyIndex' = 0
    /\ error' = NoError
    /\ clearMasks

\* the Resetar button is disabled unless canUndo; the handler tests the length
handleReset ==
    /\ EditorShown
    /\ PointerAway
    /\ canUndo
    /\ Len(history) > 0
    /\ UNCHANGED <<dims, sizeWarningVars, apiVars, displaySize, proxyVars, cropDraw, customAdjustmentPrompt>>
    /\ UNCHANGED <<history, prompt, isLoading, activeTab, crop, completedCrop,
                   outputSize, isDrawing, maskTool, promptHistory, pending, nextId>>
    /\ lastOp' = "reset"
    /\ historyIndex' = 0
    /\ error' = NoError
    /\ clearMasks

\* ---- tabs, error modal, viewport ----
setActiveTab(tab) ==
    /\ EditorShown
    /\ PointerAway
    /\ tab # activeTab
    /\ UNCHANGED <<dims, sizeWarningVars, apiVars, displaySize, proxyVars, cropDraw, customAdjustmentPrompt>>
    /\ activeTab' = tab
    /\ lastOp' = "other"
    /\ UNCHANGED <<history, historyIndex, prompt, isLoading, error, crop, completedCrop,
                   outputSize, isDrawing, maskTool, hasEditMask, hasPreserveMask,
                   promptHistory, pending, nextId>>
    /\ KeepCanvases

\* ErrorModal onClose
dismissError ==
    /\ error # NoError
    /\ UNCHANGED <<dims, sizeWarningVars, apiVars, displaySize, proxyVars, cropDraw, customAdjustmentPrompt>>
    /\ error' = NoError
    /\ lastOp' = "other"
    /\ UNCHANGED <<history, historyIndex, prompt, isLoading, activeTab, crop,
                   completedCrop, outputSize, isDrawing, maskTool, hasEditMask,
                   hasPreserveMask, promptHistory, pending, nextId>>
    /\ KeepCanvases

\* window resize: the image is laid out at `size`; syncCanvasDimensions assigns
\* both canvases' width and height, which resets their bitmaps
handleResize(size) ==
    /\ size # displaySize \/ (CanvasesMounted /\ (editMask # {} \/ preserveMask # {}))
    /\ UNCHANGED <<dims, sizeWarningVars, apiVars, proxyVars, cropDraw, customAdjustmentPrompt>>
    /\ displaySize' = size
    /\ lastOp' = "resize"
    /\ UNCHANGED <<history, historyIndex, prompt, isLoading, error, activeTab, crop,
                   completedCrop, outputSize, isDrawing, maskTool, hasEditMask,
                   hasPreserveMask, promptHistory, pending, nextId>>
    /\ editMask' = {}
    /\ preserveMask' = {}
    /\ canvasSize' = IF CanvasesMounted THEN size ELSE canvasSize
    /\ selectedPresetPrompt' = selectedPresetPrompt

\* ---- masking tools ----
setMaskTool(tool) ==
    /\ CanvasesMounted
    /\ tool # maskTool
    /\ UNCHANGED <<dims, sizeWarningVars, apiVars, displaySize, proxyVars, cropDraw, customAdjustmentPrompt>>
    /\ maskTool' = tool
    /\ lastOp' = "other"
    /\ UNCHANGED <<history, historyIndex, prompt, isLoading, error, activeTab, crop,
                   completedCrop, outputSize, isDrawing, hasEditMask, hasPreserveMask,
                   promptHistory, pending, nextId>>
    /\ KeepCanvases

\* the Limpar Mascaras button
onClearMask ==
    /\ CanvasesMounted
    /\ PointerAway
    /\ UNCHANGED <<dims, sizeWarningVars, apiVars, displaySize, proxyVars, cropDraw, customAdjustmentPrompt>>
    /\ lastOp' = "clearMasks"
    /\ UNCHANGED <<history, historyIndex, prompt, isLoading, error, activeTab, crop,
                   completedCrop, outputSize, isDrawing, maskTool, promptHistory,
                   pending, nextId>>
    /\ clearMasks

handlePointerDown ==
    /\ CanvasesMounted
    /\ ImageAreaReachable
    /\ ~(activeTab # "retouch" \/ maskTool = "magic-preserve")
    /\ ~isDrawing
    /\ UNCHANGED <<dims, sizeWarningVars, apiVars, displaySize, proxyVars, cropDraw, customAdjustmentPrompt>>
    /\ isDrawing' = TRUE
    /\ lastOp' = "other"
    /\ UNCHANGED <<history, historyIndex, prompt, isLoading, error, activeTab, crop,
                   completedCrop, outputSize, maskTool, hasEditMask, hasPreserveMask,
                   promptHistory, pending, nextId>>
    /\ KeepCanvases

\* mutant: the brush segment replaces what the edit layer held
handlePointerMove_BrushReplaces(cover) ==
    /\ CanvasesMounted
    /\ ImageAreaReachable
    /\ ~(~isDrawing \/ activeTab # "retouch")
    /\ UNCHANGED <<dims, sizeWarningVars, apiVars, displaySize, proxyVars, cropDraw, customAdjustmentPrompt>>
    /\ lastOp' = IF maskTool = "brush" THEN "brush" ELSE "erase"
    /\ UNCHANGED <<history, historyIndex, prompt, isLoading, error, activeTab, crop,
                   completedCrop, outputSize, isDrawing, maskTool, hasEditMask,
                   hasPreserveMask, promptHistory, pending, nextId>>
    /\ IF maskTool = "brush"
       THEN Repaint(cover, preserveMask)
       ELSE Repaint(editMask \ cover, preserveMask \ cover)

\* mutant: the eraser draws into the edit layer only
handlePointerMove_EraseEditOnly(cover) ==
    /\ CanvasesMounted
    /\ ImageAreaReachable
    /\ ~(~isDrawing \/ activeTab # "retouch")
    /\ UNCHANGED <<dims, sizeWarningVars, apiVars, displaySize, proxyVars, cropDraw, customAdjustmentPrompt>>
    /\ lastOp' = IF maskTool = "brush" THEN "brush" ELSE "erase"
    /\ UNCHANGED <<history, historyIndex, prompt, isLoading, error, activeTab, crop,
                   completedCrop, outputSize, isDrawing, maskTool, hasEditMask,
                   hasPreserveMask, promptHistory, pending, nextId>>
    /\ IF maskTool = "brush"
       THEN Repaint(editMask \cup cover, preserveMask)
       ELSE Repaint(editMask \ cover, preserveMask)

\* cover = the samples under the round-capped segment from lastPos to pos
handlePointerMove(cover) ==
    /\ CanvasesMounted
    /\ ImageAreaReachable
    /\ ~(~isDrawing \/ activeTab # "retouch")
    /\ UNCHANGED <<dims, sizeWarningVars, apiVars, displaySize, proxyVars, cropDraw, customAdjustmentPrompt>>
    /\ lastOp' = IF maskTool = "brush" THEN "brush" ELSE "erase"
    /\ UNCHANGED <<history, historyIndex, prompt, isLoading, error, activeTab, crop,
                   completedCrop, outputSize, isDrawing, maskTool, hasEditMask,
                   hasPreserveMask, promptHistory, pending, nextId>>
    /\ IF maskTool = "brush"
       THEN Repaint(editMask \cup cover, preserveMask)
       ELSE Repaint(editMask \ cover, preserveMask \ cover)

\* mutant: a canvas that exists counts as painted
checkCanvasContent_Always(canvas) == TRUE

\* true when some sample of the canvas has alpha > 0
checkCanvasContent(canvas) == canvas # {}

handlePointerUp ==
    /\ CanvasesMounted
    /\ isDrawing
    /\ UNCHANGED <<dims, sizeWarningVars, apiVars, displaySize, proxyVars, cropDraw, customAdjustmentPrompt>>
    /\ isDrawing' = FALSE
    /\ hasEditMask' = checkCanvasContent(editMask)
    /\ hasPreserveMask' = checkCanvasContent(preserveMask)
    /\ lastOp' = "strokeEnd"
    /\ UNCHANGED <<history, historyIndex, prompt, isLoading, error, activeTab, crop,
                   completedCrop, outputSize, maskTool, promptHistory, pending, nextId>>
    /\ KeepCanvases

\* ---- the retouch prompt ----
setPrompt(text) ==
    /\ EditorShown
    /\ PointerAway
    /\ activeTab = "retouch"
    /\ ~(isLoading \/ ~hasEditMask)
    /\ text # prompt
    /\ UNCHANGED <<dims, sizeWarningVars, apiVars, displaySize, proxyVars, cropDraw, customAdjustmentPrompt>>
    /\ prompt' = text
    /\ lastOp' = "other"
    /\ UNCHANGED <<history, historyIndex, isLoading, error, activeTab, crop,
                   completedCrop, outputSize, isDrawing, maskTool, hasEditMask,
                   hasPreserveMask, promptHistory, pending, nextId>>
    /\ KeepCanvases

\* ---- service calls ----
\* the call in flight, with what the awaiting handler reads after the await:
\* addImageToHistory's history and historyIndex, the prompt and the output size
Request(kind, text) ==
    [kind |-> kind, hist |-> history, idx |-> historyIndex, prompt |-> text,
     size |-> outputSize]

\* handleCanvasClick reads only refs and setters after its await
MaskRequest ==
    [kind |-> "mask", hist |-> <<currentImage>>, idx |-> 0, prompt |-> "",
     size |-> NoSize]

\* the retouch call, which also holds the two exported mask files
RetouchRequest(text, editMaskFile, preserveMaskFile) ==
    [kind |-> "retouch", hist |-> history, idx |-> historyIndex, prompt |-> text,
     size |-> outputSize, editMaskFile |-> editMaskFile,
     preserveMaskFile |-> preserveMaskFile]

\* mutant: the canvas is exported as it is, at its own width and height
scaleAndExportMask_AtCanvasSize(canvas, natural) ==
    LET tempCanvas == [size |-> canvasSize, alpha |-> canvas]
    IN  IF tempCanvas.alpha = {} THEN NoMaskFile ELSE tempCanvas

\* scaleAndExportMask: the canvas is drawn stretched onto a canvas of the image's
\* natural size; null when that has no sample with alpha > 0, else its PNG.
\* A sample is a region of the image at least one native pixel large, so the
\* stretch keeps the set of covered samples.
scaleAndExportMask(canvas, natural) ==
    LET tempCanvas == [size |-> natural, alpha |-> canvas]
    IN  IF tempCanvas.alpha = {} THEN NoMaskFile ELSE tempCanvas

\* the Gerar button (disabled while isLoading, with a blank prompt or without hasEditMask)
GenerateEnabled == ~(isLoading \/ trim(prompt) = "" \/ ~hasEditMask)

\* mutant: the preserve layer is subtracted from the edit layer before the export
handleGenerate_SubtractsPreserve ==
    /\ EditorShown
    /\ PointerAway
    /\ activeTab = "retouch"
    /\ GenerateEnabled
    /\ UNCHANGED <<dims, sizeWarningVars, apiVars, displaySize, proxyVars, cropDraw, customAdjustmentPrompt>>
    /\ UNCHANGED <<history, historyIndex, prompt, activeTab, crop, completedCrop,
                   outputSize, isDrawing, maskTool, hasEditMask, hasPreserveMask,
                   promptHistory>>
    /\ IF currentImage = 0 \/ trim(prompt) = "" \/ ~hasEditMask \/ outputSize = NoSize
       THEN /\ error' = SomeError
            /\ lastOp' = "invalid"
            /\ UNCHANGED <<isLoading, pending, nextId>>
       ELSE LET natural == dims[currentImage]
                editMaskFile == scaleAndExportMask(editMask \ preserveMask, natural)
                preserveMaskFile == IF hasPreserveMask
                                    THEN scaleAndExportMask(preserveMask, natural)
                                    ELSE NoMaskFile
            IN  IF editMaskFile = NoMaskFile
                THEN /\ error' = SomeError
                     /\ isLoading' = FALSE
                     /\ lastOp' = "abandoned"
                     /\ UNCHANGED <<pending, nextId>>
                ELSE /\ nextId <= MaxVersions
                     /\ isLoading' = TRUE
                     /\ error' = NoError
                     /\ pending' = RetouchRequest(prompt, editMaskFile, preserveMaskFile)
                     /\ nextId' = nextId
                     /\ lastOp' = "other"
    /\ KeepCanvases

handleGenerate ==
    /\ EditorShown
    /\ PointerAway
    /\ activeTab = "retouch"
    /\ GenerateEnabled
    /\ UNCHANGED <<dims, sizeWarningVars, apiVars, displaySize, proxyVars, cropDraw, customAdjustmentPrompt>>
    /\ UNCHANGED <<history, historyIndex, prompt, activeTab, crop, completedCrop,
                   outputSize, isDrawing, maskTool, hasEditMask, hasPreserveMask,
                   promptHistory>>
    /\ IF currentImage = 0 \/ trim(prompt) = "" \/ ~hasEditMask \/ outputSize = NoSize
       THEN /\ error' = SomeError
            /\ lastOp' = "invalid"
            /\ UNCHANGED <<isLoading, pending, nextId>>
       ELSE LET natural == dims[currentImage]
                editMaskFile == scaleAndExportMask(editMask, natural)
                preserveMaskFile == IF hasPreserveMask
                                    THEN scaleAndExportMask(preserveMask, natural)
                                    ELSE NoMaskFile
            IN  IF editMaskFile = NoMaskFile
                THEN /\ error' = SomeError
                     /\ isLoading' = FALSE
                     /\ lastOp' = "abandoned"
                     /\ UNCHANGED <<pending, nextId>>
                ELSE /\ nextId <= MaxVersions
                     /\ isLoading' = TRUE
                     /\ error' = NoError
                     /\ pending' = RetouchRequest(prompt, editMaskFile, preserveMaskFile)
                     /\ nextId' = nextId
                     /\ lastOp' = "other"
    /\ KeepCanvases

\* mutant: the raster is returned as the model sent it
resizeImage_Keep(raster, width, height) == raster

\* resizeImage: the canvas it draws the raster on and exports
resizeImage(raster, width, height) == <<width, height>>

\* generateEditedImage resolves (ok) or throws
handleGenerateDone(ok) ==
    /\ pending.kind = "retouch"
    /\ UNCHANGED <<sizeWarningVars, apiVars, displaySize, proxyVars, cropDraw, customAdjustmentPrompt>>
    /\ pending' = NoReq
    /\ isLoading' = FALSE
    /\ UNCHANGED <<prompt, activeTab, outputSize, isDrawing, maskTool>>
    /\ IF ok
       THEN /\ nextId <= MaxVersions
            /\ nextId' = nextId + 1
            /\ lastOp' = "commitRetouch"
            /\ dims' = Append(dims, resizeImage(AiRasterSize, pending.size[1], pending.size[2]))
            /\ error' = error
            /\ addImageToHistory(pending.hist, pending.idx, nextId)
            /\ addPromptToHistory("retouch", pending.prompt)
            /\ clearMasks
       ELSE /\ lastOp' = "failed"
            /\ error' = SomeError
            /\ dims' = dims
            /\ UNCHANGED <<history, historyIndex, crop, completedCrop, promptHistory,
                           hasEditMask, hasPreserveMask, nextId>>
            /\ KeepCanvases

\* FilterPanel's apply buttons
FilterPanelEnabled == ~isLoading

handleApplyFilter(filterPrompt) ==
    /\ EditorShown
    /\ PointerAway
    /\ activeTab = "filters"
    /\ FilterPanelEnabled
    /\ UNCHANGED <<dims, sizeWarningVars, apiVars, displaySize, proxyVars, cropDraw, customAdjustmentPrompt>>
    /\ UNCHANGED <<history, historyIndex, prompt, activeTab, crop, completedCrop,
                   outputSize, isDrawing, maskTool, hasEditMask, hasPreserveMask,
                   promptHistory>>
    /\ IF currentImage = 0 \/ outputSize = NoSize
       THEN /\ error' = SomeError
            /\ lastOp' = "invalid"
            /\ UNCHANGED <<isLoading, pending, nextId>>
       ELSE /\ nextId <= MaxVersions
            /\ isLoading' = TRUE
            /\ error' = NoError
            /\ pending' = Request("filters", filterPrompt)
            /\ nextId' = nextId
            /\ lastOp' = "other"
    /\ KeepCanvases

\* mutant: setIsLoading(false) only after a result, not in a finally block
handleApplyFilterDone_NoFinally(ok) ==
    /\ pending.kind = "filters"
    /\ UNCHANGED <<sizeWarningVars, apiVars, displaySize, proxyVars, cropDraw, customAdjustmentPrompt>>
    /\ pending' = NoReq
    /\ isLoading' = IF ok THEN FALSE ELSE isLoading
    /\ UNCHANGED <<prompt, activeTab, outputSize, isDrawing, maskTool,
                   hasEditMask, hasPreserveMask>>
    /\ IF ok
       THEN /\ nextId <= MaxVersions
            /\ nextId' = nextId + 1
            /\ lastOp' = "commitFilter"
            /\ dims' = Append(dims, resizeImage(AiRasterSize, pending.size[1], pending.size[2]))
            /\ error' = error
            /\ addImageToHistory(pending.hist, pending.idx, nextId)
            /\ addPromptToHistory("filters", pending.prompt)
       ELSE /\ lastOp' = "failed"
            /\ error' = SomeError
            /\ dims' = dims
            /\ UNCHANGED <<history, historyIndex, crop, completedCrop, promptHistory,
                           nextId>>
    /\ KeepCanvases

handleApplyFilterDone(ok) ==
    /\ pending.kind = "filters"
    /\ UNCHANGED <<sizeWarningVars, apiVars, displaySize, proxyVars, cropDraw, customAdjustmentPrompt>>
    /\ pending' = NoReq
    /\ isLoading' = FALSE
    /\ UNCHANGED <<prompt, activeTab, outputSize, isDrawing, maskTool,
                   hasEditMask, hasPreserveMask>>
    /\ IF ok
       THEN /\ nextId <= MaxVersions
            /\ nextId' = nextId + 1
            /\ lastOp' = "commitFilter"
            /\ dims' = Append(dims, resizeImage(AiRasterSize, pending.size[1], pending.size[2]))
            /\ error' = error
            /\ addImageToHistory(pending.hist, pending.idx, nextId)
            /\ addPromptToHistory("filters", pending.prompt)
       ELSE /\ lastOp' = "failed"
            /\ error' = SomeError
            /\ dims' = dims
            /\ UNCHANGED <<history, historyIndex, crop, completedCrop, promptHistory,
                           nextId>>
    /\ KeepCanvases

\* mutant: the panel's buttons are not disabled while isLoading
AdjustmentPanelEnabled_Always == TRUE

\* AdjustmentPanel: Remover Fundo and Aplicar Ajuste are disabled while isLoading
AdjustmentPanelEnabled == ~isLoading

handleApplyAdjustment(adjustmentPrompt) ==
    /\ EditorShown
    /\ PointerAway
    /\ activeTab = "adjust"
    /\ AdjustmentPanelEnabled
    /\ UNCHANGED <<dims, sizeWarningVars, apiVars, displaySize, proxyVars, cropDraw, customAdjustmentPrompt>>
    /\ UNCHANGED <<history, historyIndex, prompt, activeTab, crop, completedCrop,
                   outputSize, isDrawing, maskTool, hasEditMask, hasPreserveMask,
                   promptHistory>>
    /\ IF currentImage = 0 \/ outputSize = NoSize
       THEN /\ error' = SomeError
            /\ lastOp' = "invalid"
            /\ UNCHANGED <<isLoading, pending, nextId>>
       ELSE /\ nextId <= MaxVersions
            /\ isLoading' = TRUE
            /\ error' = NoError
            /\ pending' = Request("adjust", adjustmentPrompt)
            /\ nextId' = nextId
            /\ lastOp' = "other"
    /\ KeepCanvases

\* ---- AdjustmentPanel: presets and the custom instruction ----
\* selectedPresetPrompt || customPrompt
activePrompt ==
    IF selectedPresetPrompt # NoPreset THEN selectedPresetPrompt ELSE customAdjustmentPrompt

\* a preset button; the buttons are disabled while isLoading
handlePresetClick(presetPrompt) ==
    /\ AdjustmentPanelMounted
    /\ PointerAway
    /\ ~isLoading
    /\ selectedPresetPrompt' = presetPrompt
    /\ customAdjustmentPrompt' = ""
    /\ lastOp' = "other"
    /\ UNCHANGED <<dims, sizeWarningVars, apiVars, displaySize, proxyVars, cropDraw>>
    /\ UNCHANGED <<history, historyIndex, prompt, isLoading, error, activeTab, crop,
                   completedCrop, outputSize, isDrawing, maskTool, hasEditMask,
                   hasPreserveMask, promptHistory, pending, nextId>>
    /\ UNCHANGED <<editMask, preserveMask, canvasSize>>

\* typing in the custom field; the field is disabled while isLoading
handleCustomChange(text) ==
    /\ AdjustmentPanelMounted
    /\ PointerAway
    /\ ~isLoading
    /\ text # customAdjustmentPrompt
    /\ customAdjustmentPrompt' = text
    /\ selectedPresetPrompt' = NoPreset
    /\ lastOp' = "other"
    /\ UNCHANGED <<dims, sizeWarningVars, apiVars, displaySize, proxyVars, cropDraw>>
    /\ UNCHANGED <<history, historyIndex, prompt, isLoading, error, activeTab, crop,
                   completedCrop, outputSize, isDrawing, maskTool, hasEditMask,
                   hasPreserveMask, promptHistory, pending, nextId>>
    /\ UNCHANGED <<editMask, preserveMask, canvasSize>>

\* Aplicar Ajuste: rendered when activePrompt is not empty, disabled while
\* isLoading or when activePrompt is blank
handleApply ==
    /\ activePrompt # ""
    /\ ~(isLoading \/ trim(activePrompt) = "")
    /\ handleApplyAdjustment(activePrompt)

\* Historico opens the prompt ledger (disabled while it is empty); a click on
\* one of its entries re-loads the entry into the tab it came from
handleSelectHistoryItem(item) ==
    /\ EditorShown
    /\ PointerAway
    /\ Len(promptHistory) # 0
    /\ \E k \in 1..Len(promptHistory) : promptHistory[k] = item
    /\ activeTab' = item.type
    /\ prompt' = IF item.type = "retouch" THEN item.prompt ELSE prompt
    /\ customAdjustmentPrompt' = IF item.type = "adjust" THEN item.prompt
                                 ELSE customAdjustmentPrompt
    /\ lastOp' = "selectHistoryItem"
    /\ UNCHANGED <<dims, sizeWarningVars, apiVars, displaySize, proxyVars, cropDraw>>
    /\ UNCHANGED <<history, historyIndex, isLoading, error, crop, completedCrop,
                   outputSize, isDrawing, maskTool, hasEditMask, hasPreserveMask,
                   promptHistory, pending, nextId>>
    /\ KeepCanvases

\* mutant: the prompt is recorded in the ledger whether or not the call succeeds
handleApplyAdjustmentDone_LedgerFirst(ok) ==
    /\ pending.kind = "adjust"
    /\ UNCHANGED <<sizeWarningVars, apiVars, displaySize, proxyVars, cropDraw, customAdjustmentPrompt>>
    /\ pending' = NoReq
    /\ isLoading' = FALSE
    /\ UNCHANGED <<prompt, activeTab, outputSize, isDrawing, maskTool,
                   hasEditMask, hasPreserveMask>>
    /\ addPromptToHistory("adjust", pending.prompt)
    /\ IF ok
       THEN /\ nextId <= MaxVersions
            /\ nextId' = nextId + 1
            /\ lastOp' = "commitAdjust"
            /\ dims' = Append(dims, resizeImage(AiRasterSize, pending.size[1], pending.size[2]))
            /\ error' = error
            /\ addImageToHistory(pending.hist, pending.idx, nextId)
       ELSE /\ lastOp' = "failed"
            /\ error' = SomeError
            /\ dims' = dims
            /\ UNCHANGED <<history, historyIndex, crop, completedCrop, nextId>>
    /\ KeepCanvases

handleApplyAdjustmentDone(ok) ==
    /\ pending.kind = "adjust"
    /\ UNCHANGED <<sizeWarningVars, apiVars, displaySize, proxyVars, cropDraw, customAdjustmentPrompt>>
    /\ pending' = NoReq
    /\ isLoading' = FALSE
    /\ UNCHANGED <<prompt, activeTab, outputSize, isDrawing, maskTool,
                   hasEditMask, hasPreserveMask>>
    /\ IF ok
       THEN /\ nextId <= MaxVersions
            /\ nextId' = nextId + 1
            /\ lastOp' = "commitAdjust"
            /\ dims' = Append(dims, resizeImage(AiRasterSize, pending.size[1], pending.size[2]))
            /\ error' = error
            /\ addImageToHistory(pending.hist, pending.idx, nextId)
            /\ addPromptToHistory("adjust", pending.prompt)
       ELSE /\ lastOp' = "failed"
            /\ error' = SomeError
            /\ dims' = dims
            /\ UNCHANGED <<history, historyIndex, crop, completedCrop, promptHistory,
                           nextId>>
    /\ KeepCanvases

\* ---- magic-preserve ----
handleCanvasClick ==
    /\ CanvasesMounted
    /\ PointerAway
    /\ ImageAreaReachable
    /\ ~(maskTool # "magic-preserve" \/ isLoading \/ currentImage = 0)
    /\ UNCHANGED <<dims, sizeWarningVars, apiVars, displaySize, proxyVars, cropDraw, customAdjustmentPrompt>>
    /\ isLoading' = TRUE
    /\ error' = NoError
    /\ pending' = MaskRequest
    /\ lastOp' = "other"
    /\ UNCHANGED <<history, historyIndex, prompt, activeTab, crop, completedCrop,
                   outputSize, isDrawing, maskTool, hasEditMask, hasPreserveMask,
                   promptHistory, nextId>>
    /\ KeepCanvases

\* maskImage.onload: clearRect, drawImage(maskImage) stretched over the canvas,
\* then a 'source-in' fill with the marker colour, which lands on every sample
\* the drawn raster left with alpha > 0
drawObjectMask(raster) == raster.opaque

\* generateObjectMask resolves with a raster or throws.  The decoding of the
\* returned data URL (maskImage.onload) is taken to finish before the next
\* event: it replaces the preserve canvas, if there is one.
handleCanvasClickDone(ok, raster) ==
    /\ pending.kind = "mask"
    /\ UNCHANGED <<dims, sizeWarningVars, apiVars, displaySize, proxyVars, cropDraw, customAdjustmentPrompt>>
    /\ pending' = NoReq
    /\ isLoading' = FALSE
    /\ UNCHANGED <<history, historyIndex, prompt, activeTab, crop, completedCrop,
                   outputSize, isDrawing, maskTool, hasEditMask, promptHistory, nextId>>
    /\ IF ok
       THEN /\ error' = error
            /\ lastOp' = "maskDrawn"
            /\ IF CanvasesMounted
               THEN /\ hasPreserveMask' = TRUE
                    /\ Repaint(editMask, drawObjectMask(raster))
               ELSE /\ hasPreserveMask' = hasPreserveMask
                    /\ KeepCanvases
       ELSE /\ error' = SomeError
            /\ lastOp' = "failed"
            /\ hasPreserveMask' = hasPreserveMask
            /\ KeepCanvases

\* ---- crop ----
\* ReactCrop: a drag on the image ends with onChange(c) and onComplete(c) for the
\* rectangle c it selected
onCropComplete(c) ==
    /\ ImageAreaReachable
    /\ PointerAway
    /\ activeTab = "crop"
    /\ c # completedCrop
    /\ UNCHANGED <<dims, sizeWarningVars, apiVars, displaySize, proxyVars, cropDraw, customAdjustmentPrompt>>
    /\ crop' = c
    /\ completedCrop' = c
    /\ lastOp' = "other"
    /\ UNCHANGED <<history, historyIndex, prompt, isLoading, error, activeTab,
                   outputSize, isDrawing, maskTool, hasEditMask, hasPreserveMask,
                   promptHistory, pending, nextId>>
    /\ KeepCanvases

\* the quotient n / d of two numbers, kept exact
Quotient(n, d) == <<n, d>>

\* k * q for a number k and a quotient q
Times(k, q) == <<k * q[1], q[2]>>

\* mutant: the selection is read from the image unscaled
drawCrop_Unscaled(c, natural, image) ==
    [sx |-> Times(c[3], Quotient(1, 1)),
     sy |-> Times(c[4], Quotient(1, 1)),
     sWidth |-> Times(c[1], Quotient(1, 1)),
     sHeight |-> Times(c[2], Quotient(1, 1)),
     canvas |-> <<c[1] * devicePixelRatio, c[2] * devicePixelRatio>>]

\* handleApplyCrop's canvas and the source rectangle of its drawImage call, for
\* the selection c = <<width, height, x, y>>, the image's natural size and the
\* size the <img> is laid out at
drawCrop(c, natural, image) ==
    LET scaleX == Quotient(natural[1], image[1])
        scaleY == Quotient(natural[2], image[2])
        pixelRatio == devicePixelRatio
    IN  [sx |-> Times(c[3], scaleX),
         sy |-> Times(c[4], scaleY),
         sWidth |-> Times(c[1], scaleX),
         sHeight |-> Times(c[2], scaleY),
         canvas |-> <<c[1] * pixelRatio, c[2] * pixelRatio>>]

\* CropPanel's isCropping prop
isCropping == completedCrop # NoCrop /\ completedCrop[1] > 0

\* mutant: the crop is rasterized at the output size
handleApplyCrop_ToOutputSize ==
    /\ EditorShown
    /\ PointerAway
    /\ activeTab = "crop"
    /\ ~(isLoading \/ ~isCropping)
    /\ UNCHANGED <<sizeWarningVars, apiVars, displaySize, proxyVars, customAdjustmentPrompt>>
    /\ UNCHANGED <<prompt, isLoading, activeTab, outputSize, isDrawing, maskTool,
                   hasEditMask, hasPreserveMask, promptHistory, pending>>
    /\ IF completedCrop = NoCrop \/ outputSize = NoSize
       THEN /\ error' = SomeError
            /\ lastOp' = "invalid"
            /\ UNCHANGED <<history, historyIndex, crop, completedCrop, nextId, dims, cropDraw>>
       ELSE /\ nextId <= MaxVersions
            /\ nextId' = nextId + 1
            /\ error' = error
            /\ lastOp' = "commitCrop"
            /\ cropDraw' = drawCrop(completedCrop, dims[currentImage], displaySize)
            /\ dims' = Append(dims, outputSize)
            /\ addImageToHistory(history, historyIndex, nextId)
    /\ KeepCanvases

\* Aplicar Corte is disabled while isLoading or without isCropping
handleApplyCrop ==
    /\ EditorShown
    /\ PointerAway
    /\ activeTab = "crop"
    /\ ~(isLoading \/ ~isCropping)
    /\ UNCHANGED <<sizeWarningVars, apiVars, displaySize, proxyVars, customAdjustmentPrompt>>
    /\ UNCHANGED <<prompt, isLoading, activeTab, outputSize, isDrawing, maskTool,
                   hasEditMask, hasPreserveMask, promptHistory, pending>>
    /\ IF completedCrop = NoCrop
       THEN /\ error' = SomeError
            /\ lastOp' = "invalid"
            /\ UNCHANGED <<history, historyIndex, crop, completedCrop, nextId, dims, cropDraw>>
       ELSE /\ nextId <= MaxVersions
            /\ nextId' = nextId + 1
            /\ error' = error
            /\ lastOp' = "commitCrop"
            /\ cropDraw' = drawCrop(completedCrop, dims[currentImage], displaySize)
            /\ dims' = Append(dims, cropDraw'.canvas)
            /\ addImageToHistory(history, historyIndex, nextId)
    /\ KeepCanvases

\* ---- CropPanel: the output-size fields ----
RECURSIVE digitsValue(_)
digitsValue(t) ==
    IF t = <<>> THEN 0 ELSE 10 * digitsValue(SubSeq(t, 1, Len(t) - 1)) + t[Len(t)]

\* parseInt(e.target.value, 10) of a field holding the digits t
parseInt(t) == IF t = <<>> THEN NaN ELSE <<digitsValue(t)>>

\* x || 0
OrZero(x) == IF x = NaN THEN 0 ELSE x[1]

\* both fields are disabled while isLoading or without outputSize
SizeFieldsEnabled == ~(isLoading \/ outputSize = NoSize)

handleWidthChange(text) ==
    /\ EditorShown
    /\ PointerAway
    /\ activeTab = "crop"
    /\ SizeFieldsEnabled
    /\ outputSize # NoSize
    /\ LET newWidth == OrZero(parseInt(text))
       IN  /\ newWidth # outputSize[1]
           /\ outputSize' = <<newWidth, outputSize[2]>>
    /\ lastOp' = "other"
    /\ UNCHANGED <<dims, sizeWarningVars, apiVars, displaySize, proxyVars, cropDraw, customAdjustmentPrompt>>
    /\ UNCHANGED <<history, historyIndex, prompt, isLoading, error, activeTab, crop,
                   completedCrop, isDrawing, maskTool, hasEditMask, hasPreserveMask,
                   promptHistory, pending, nextId>>
    /\ KeepCanvases

handleHeightChange(text) ==
    /\ EditorShown
    /\ PointerAway
    /\ activeTab = "crop"
    /\ SizeFieldsEnabled
    /\ outputSize # NoSize
    /\ LET newHeight == OrZero(parseInt(text))
       IN  /\ newHeight # outputSize[2]
           /\ outputSize' = <<outputSize[1], newHeight>>
    /\ lastOp' = "other"
    /\ UNCHANGED <<dims, sizeWarningVars, apiVars, displaySize, proxyVars, cropDraw, customAdjustmentPrompt>>
    /\ UNCHANGED <<history, historyIndex, prompt, isLoading, error, activeTab, crop,
                   completedCrop, isDrawing, maskTool, hasEditMask, hasPreserveMask,
                   promptHistory, pending, nextId>>
    /\ KeepCanvases

\* ---- handleApiResponse ----
\* the first part of the first candidate that has inlineData, or 0
imagePartFromResponse(r) ==
    IF r.candidates = <<>>
    THEN 0
    ELSE LET parts == r.candidates[1].parts
             found == {i \in 1 .. Len(parts) : "inlineData" \in DOMAIN parts[i]}
         IN  IF found = {} THEN 0 ELSE CHOOSE i \in found : \A j \in found : i <= j

\* mutant: the image part is looked for before the block reason
handleApiResponse_ImageFirst(r) ==
    IF imagePartFromResponse(r) # 0
    THEN [kind |-> "image",
          data |-> r.candidates[1].parts[imagePartFromResponse(r)].inlineData]
    ELSE IF r.blockReason # ""
    THEN [kind |-> "blocked", reason |-> r.blockReason]
    ELSE IF r.candidates # <<>> /\ r.candidates[1].finishReason \notin {"", "STOP"}
    THEN [kind |-> "stopped", reason |-> r.candidates[1].finishReason]
    ELSE [kind |-> "noImage"]

handleApiResponse(r) ==
    IF r.blockReason # ""
    THEN [kind |-> "blocked", reason |-> r.blockReason]
    ELSE IF imagePartFromResponse(r) # 0
    THEN [kind |-> "image",
          data |-> r.candidates[1].parts[imagePartFromResponse(r)].inlineData]
    ELSE IF r.candidates # <<>> /\ r.candidates[1].finishReason \notin {"", "STOP"}
    THEN [kind |-> "stopped", reason |-> r.candidates[1].finishReason]
    ELSE [kind |-> "noImage"]

\* one call of handleApiResponse on the response drawn initially
callHandleApiResponse ==
    /\ outcome = NoOutcome
    /\ outcome' = handleApiResponse(response)
    /\ UNCHANGED <<response, dims, sizeWarningVars, displaySize, canvasSize, proxyVars, cropDraw, customAdjustmentPrompt>>
    /\ UNCHANGED <<history, historyIndex, prompt, isLoading, error, activeTab, crop,
                   completedCrop, outputSize, isDrawing, maskTool, hasEditMask,
                   hasPreserveMask, promptHistory, editMask, preserveMask, pending,
                   nextId, lastOp, selectedPresetPrompt>>

Next ==
    \/ \E size \in ImageSizes, readable \in BOOLEAN : handleImageUpload(size, readable)
    \/ handleUploadNew
    \/ handleUndo
    \/ handleRedo
    \/ handleReset
    \/ \E tab \in Tabs : setActiveTab(tab)
    \/ dismissError
    \/ \E size \in ViewportSizes : handleResize(size)
    \/ \E tool \in MaskTools : setMaskTool(tool)
    \/ onClearMask
    \/ handlePointerDown
    \/ \E cover \in StrokeCovers : handlePointerMove(cover)
    \/ handlePointerUp
    \/ \E text \in PromptTexts : setPrompt(text)
    \/ handleGenerate
    \/ \E ok \in BOOLEAN : handleGenerateDone(ok)
    \/ \E filterPrompt \in FilterPrompts : handleApplyFilter(filterPrompt)
    \/ \E ok \in BOOLEAN : handleApplyFilterDone(ok)
    \/ \E adjustmentPrompt \in AdjustPrompts : handleApplyAdjustment(adjustmentPrompt)
    \/ \E ok \in BOOLEAN : handleApplyAdjustmentDone(ok)
    \/ handleCanvasClick
    \/ \E ok \in BOOLEAN, raster \in MaskRasters : handleCanvasClickDone(ok, raster)
    \/ \E c \in CropRects : onCropComplete(c)
    \/ handleApplyCrop

Spec == Init /\ [][Next]_vars

\* the completions of the outstanding service call
CallCompletes ==
    \/ \E ok \in BOOLEAN : handleGenerateDone(ok)
    \/ \E ok \in BOOLEAN : handleApplyFilterDone(ok)
    \/ \E ok \in BOOLEAN : handleApplyAdjustmentDone(ok)
    \/ \E ok \in BOOLEAN, raster \in MaskRasters : handleCanvasClickDone(ok, raster)

\* every promise the handlers await settles
FairSpec == Spec /\ WF_vars(CallCompletes)

\* the output-size fields, crop and adjustment on one uploaded image
SizeNext ==
    \/ \E size \in ImageSizes : handleImageUpload(size, TRUE)
    \/ \E tab \in SizeTabs : setActiveTab(tab)
    \/ dismissError
    \/ \E text \in FieldTexts : handleWidthChange(text)
    \/ \E text \in FieldTexts : handleHeightChange(text)
    \/ \E c \in CropSelections : onCropComplete(c)
    \/ handleApplyCrop
    \/ handleUploadNew
    \/ \E adjustmentPrompt \in AdjustPrompts : handleApplyAdjustment(adjustmentPrompt)
    \/ \E ok \in BOOLEAN : handleApplyAdjustmentDone(ok)

SizeSpec == Init /\ [][SizeNext]_vars

\* crops of selections placed anywhere on an image laid out at several sizes
CropNext ==
    \/ \E size \in CropImageSizes : handleImageUpload(size, TRUE)
    \/ setActiveTab("crop")
    \/ \E size \in CropViewports : handleResize(size)
    \/ \E c \in CropAreas : onCropComplete(c)
    \/ handleApplyCrop
    \/ handleUndo
    \/ handleRedo

CropSpec == Init /\ [][CropNext]_vars

\* the adjustment panel with its presets, its custom field and the prompt ledger
PanelNext ==
    \/ \E size \in ImageSizes : handleImageUpload(size, TRUE)
    \/ \E tab \in PanelTabs : setActiveTab(tab)
    \/ dismissError
    \/ \E presetPrompt \in Presets : handlePresetClick(presetPrompt)
    \/ \E text \in CustomTexts : handleCustomChange(text)
    \/ handleApply
    \/ \E ok \in BOOLEAN : handleApplyAdjustmentDone(ok)
    \/ \E item \in [type : {"adjust"}, prompt : Presets \cup CustomTexts] :
           handleSelectHistoryItem(item)

PanelSpec == Init /\ [][PanelNext]_vars

\* uploads of every size in UploadSizes, with a generation call that may be outstanding
UploadNext ==
    \/ \E size \in UploadSizes, readable \in BOOLEAN : handleImageUpload(size, readable)
    \/ handleConfirmResize
    \/ handleContinueAnyway
    \/ closeSizeWarning
    \/ handleUploadNew
    \/ \E tab \in SizeTabs : setActiveTab(tab)
    \/ dismissError
    \/ \E adjustmentPrompt \in AdjustPrompts : handleApplyAdjustment(adjustmentPrompt)
    \/ \E ok \in BOOLEAN : handleApplyAdjustmentDone(ok)

UploadSpec == Init /\ [][UploadNext]_vars

\* the mask tools on one uploaded image, laid out at either viewport size
MaskInit ==
    /\ AppInit
    /\ ProxyIdle
    /\ displaySize \in MaskViewports
    /\ response = NoResponse
    /\ outcome = NoOutcome

MaskNext ==
    \/ \E size \in MaskImageSizes : handleImageUpload(size, TRUE)
    \/ \E tab \in MaskTabs : setActiveTab(tab)
    \/ dismissError
    \/ \E size \in MaskViewports : handleResize(size)
    \/ \E tool \in MaskTools : setMaskTool(tool)
    \/ onClearMask
    \/ handlePointerDown
    \/ \E cover \in BrushCovers : handlePointerMove(cover)
    \/ handlePointerUp
    \/ \E text \in PromptTexts : setPrompt(text)
    \/ handleGenerate
    \/ \E ok \in BOOLEAN : handleGenerateDone(ok)
    \/ handleCanvasClick
    \/ \E ok \in BOOLEAN, raster \in ObjectRasters : handleCanvasClickDone(ok, raster)

MaskSpec == MaskInit /\ [][MaskNext]_vars

\* ---- the proxy (api handler) ----
\* Response.ok
ok(res) == res.status \in 200 .. 299

\* responseData.error?.message || 'Ocorreu um erro com a API Gemini.'
errorDetail(responseData) ==
    IF "error" \in DOMAIN responseData /\ "message" \in DOMAIN responseData.error
    THEN responseData.error.message
    ELSE "Ocorreu um erro com a API Gemini."

InternalError == [status |-> 500, body |-> [error |-> "Ocorreu um erro interno no servidor."]]

\* handler: what it answers to req when fetch behaves as `upstream`.  Destructuring
\* an absent body, a fetch that throws and a body that geminiResponse.json()
\* cannot parse all end in the catch block.
handler(req, upstream) ==
    IF req.method # "POST"
    THEN [status |-> 405, body |-> [error |-> "Method Not Allowed"]]
    ELSE IF ~req.hasKey
    THEN [status |-> 500, body |-> [error |-> "A chave de API nao esta configurada no servidor."]]
    ELSE IF ~req.body.present
    THEN InternalError
    ELSE IF req.body.model = "" \/ req.body.contents = ""
    THEN [status |-> 400, body |-> [error |-> "Campos obrigatorios ausentes: modelo e conteudo."]]
    ELSE IF upstream.kind = "throws"
    THEN InternalError
    ELSE IF ~upstream.body.json
    THEN InternalError
    ELSE IF ~ok(upstream)
    THEN [status |-> upstream.status,
          body |-> [error |-> errorDetail(upstream.body.value),
                    details |-> upstream.body.value]]
    ELSE [status |-> 200, body |-> upstream.body.value]

\* the request reaches the upstream call
UpstreamCalled(req) ==
    /\ req.method = "POST"
    /\ req.hasKey
    /\ req.body.present
    /\ req.body.model # "" /\ req.body.contents # ""

\* one run of handler on the request and the upstream behaviour drawn initially
callHandler ==
    /\ proxyResponse = NoReply
    /\ proxyResponse' = handler(request, geminiResponse)
    /\ fetched' = UpstreamCalled(request)
    /\ UNCHANGED <<request, geminiResponse, dims, sizeWarningVars, apiVars, displaySize,
                   canvasSize, cropDraw, selectedPresetPrompt, customAdjustmentPrompt>>
    /\ UNCHANGED <<history, historyIndex, prompt, isLoading, error, activeTab, crop,
                   completedCrop, outputSize, isDrawing, maskTool, hasEditMask,
                   hasPreserveMask, promptHistory, editMask, preserveMask, pending,
                   nextId, lastOp>>

ProxyInit ==
    /\ AppInit
    /\ displaySize = DefaultCanvasSize
    /\ response = NoResponse
    /\ outcome = NoOutcome
    /\ request \in Requests
    /\ geminiResponse \in Upstreams
    /\ proxyResponse = NoReply
    /\ fetched = FALSE

ProxyNext == callHandler

ProxySpec == ProxyInit /\ [][ProxyNext]_vars

\* handleApiResponse applied to each response of Responses
ApiInit ==
    /\ AppInit
    /\ ProxyIdle
    /\ displaySize = DefaultCanvasSize
    /\ response \in Responses
    /\ outcome = NoOutcome

ApiNext == callHandleApiResponse

ApiSpec == ApiInit /\ [][ApiNext]_vars

\* ---- the operation that made a step, by lastOp ----
GenerationCommits == {"commitRetouch", "commitFilter", "commitAdjust"}

Commits == GenerationCommits \cup {"commitCrop"}

Navigations == {"undo", "redo", "reset"}

Uploads == {"upload", "uploadResized", "uploadNew"}

HistoryOps == Commits \cup Navigations \cup Uploads

MasksCleared ==
    /\ editMask = {}
    /\ preserveMask = {}
    /\ ~hasEditMask
    /\ ~hasPreserveMask

\* C1: in every reachable state -1 <= historyIndex <= length-1, and the index is
\* at least 0 whenever the history is not empty; canUndo (historyIndex > 0) then
\* has a version to go back to and canRedo (historyIndex < length-1) one to go
\* forward to.
C1_IndexInRange ==
    /\ historyIndex \in -1 .. Len(history) - 1
    /\ history # <<>> => historyIndex >= 0
    /\ canUndo => ImageAt(history, historyIndex - 1) # 0
    /\ canRedo => ImageAt(history, historyIndex + 1) # 0

C1_Witness == lastOp = "undo" /\ Len(history) = 3 /\ historyIndex = 1

C4_UndoThenRedo ==
    [][/\ lastOp' = "undo" =>
            /\ history' = history
            /\ historyIndex' = historyIndex - 1
            /\ canRedo'
            /\ ImageAt(history', historyIndex' + 1) = currentImage
       /\ lastOp' = "redo" =>
            /\ history' = history
            /\ historyIndex' = historyIndex + 1
       /\ lastOp' \notin HistoryOps =>
            /\ history' = history
            /\ historyIndex' = historyIndex]_vars

C4_Witness == lastOp = "redo" /\ history = <<1, 2, 3>> /\ historyIndex = 1

\* C5: reset sets historyIndex to 0 and leaves the sequence untouched, so a redo
\* right after it reaches the second version.
C5_ResetKeepsVersions ==
    [][/\ lastOp' = "reset" =>
            /\ historyIndex' = 0
            /\ history' = history
            /\ Len(history') > 1
       /\ (lastOp = "reset" /\ lastOp' \in {"redo", "redoNoop"}) =>
            /\ lastOp' = "redo"
            /\ history' = history
            /\ historyIndex' = 1
            /\ currentImage' = history[2]]_vars

C5_Witness == lastOp = "reset" /\ history = <<1, 2, 3>> /\ historyIndex = 0

\* C6: handleUndo without canUndo and handleRedo without canRedo change neither
\* historyIndex, the history, the mask canvases nor their flags; with canUndo
\* (canRedo) the index moves by exactly one and the sequence stays.
C6_DisabledNavigationIsNoop ==
    [][/\ lastOp' \in {"undo", "undoNoop"} =>
            IF canUndo
            THEN lastOp' = "undo" /\ historyIndex' = historyIndex - 1 /\ history' = history
            ELSE /\ lastOp' = "undoNoop"
                 /\ UNCHANGED <<historyIndex, history, editMask, preserveMask,
                                hasEditMask, hasPreserveMask>>
       /\ lastOp' \in {"redo", "redoNoop"} =>
            IF canRedo
            THEN lastOp' = "redo" /\ historyIndex' = historyIndex + 1 /\ history' = history
            ELSE /\ lastOp' = "redoNoop"
                 /\ UNCHANGED <<historyIndex, history, editMask, preserveMask,
                                hasEditMask, hasPreserveMask>>]_vars

C6_Witness ==
    /\ lastOp = "undoNoop"
    /\ historyIndex = 0
    /\ editMask # {}
    /\ hasEditMask

\* C7: right after handleUploadNew the history is empty with historyIndex = -1,
\* the prompt ledger is empty, the output size is unset and both masks are clear.
C7_UploadNewClears ==
    lastOp = "uploadNew" =>
        /\ history = <<>>
        /\ historyIndex = -1
        /\ promptHistory = <<>>
        /\ outputSize = NoSize
        /\ MasksCleared

\* uploadNew while a call is in flight, after a commit
C7_Witness == lastOp = "uploadNew" /\ isLoading /\ nextId = 3

\* C8: right after every commit, every effective undo, redo or reset and every
\* upload, both mask canvases are transparent and both flags are false.
C8_MasksClearedAfterHistoryOp == lastOp \in HistoryOps => MasksCleared

\* C9: right after every commit and every effective undo, redo or reset there is
\* no crop selection.
C9_CropClearedAfterHistoryOp ==
    lastOp \in Commits \cup Navigations => crop = NoCrop /\ completedCrop = NoCrop

\* C10: a call in flight is never replaced by another one, and isLoading is true
\* exactly while a call is in flight.
C10_OneCallOutstanding ==
    [][/\ pending # NoReq => pending' \in {pending, NoReq}
       /\ isLoading' = (pending' # NoReq)]_vars

\* a fresh upload made while a call is in flight
C10_Witness == lastOp = "upload" /\ isLoading /\ pending # NoReq

\* C11: a call that was started is eventually over with isLoading false, whether
\* it succeeded or failed; the step that ends a call clears isLoading; and
\* isLoading is never true without a call outstanding.
C11_BusyEventuallyCleared ==
    /\ [][(pending # NoReq /\ pending' = NoReq) => ~isLoading']_vars
    /\ [](isLoading => pending # NoReq)
    /\ (pending # NoReq) ~> (pending = NoReq /\ ~isLoading)

\* a filter call failed upstream and the editor is idle again
C11_Witness ==
    /\ lastOp = "failed"
    /\ activeTab = "filters"
    /\ history # <<>>
    /\ error = SomeError
    /\ ~isLoading
\* C12: a submission that fails local validation starts no call and leaves the
\* history, the index, both mask layers, the prompt ledger, the output size and
\* isLoading as they were; only the error message is set.
C12_ValidationFailureChangesNothing ==
    [][lastOp' = "invalid" =>
        /\ UNCHANGED <<history, historyIndex, editMask, preserveMask, promptHistory,
                       outputSize, isLoading, pending>>
        /\ error' = SomeError]_vars
\* C13: applying a crop whose selection has width 0 or height 0 produces no
\* raster and commits nothing: the history, the index and the set of rasters
\* are unchanged.
C13_ZeroSizeCropRejected ==
    [][(/\ lastOp' \in {"commitCrop", "invalid"}
        /\ completedCrop # NoCrop
        /\ (completedCrop[1] = 0 \/ completedCrop[2] = 0)) =>
            UNCHANGED <<history, historyIndex, dims>>]_vars
\* C14: when a generation call fails nothing is committed (the history, the index
\* and the prompt ledger are unchanged), an error is shown and the call is over;
\* no call starts while an error is shown, so the next request needs the user
\* to close the error and submit again.
C14_FailureCommitsNothing ==
    [][/\ (pending.kind \in Kinds /\ pending' = NoReq /\ lastOp' = "failed") =>
            /\ UNCHANGED <<history, historyIndex, promptHistory, dims>>
            /\ error' = SomeError
            /\ ~isLoading'
       /\ (pending = NoReq /\ pending' # NoReq) => error = NoError]_vars

\* an adjustment requested on a version reached by undo failed
C14_Witness ==
    /\ lastOp = "failed"
    /\ activeTab = "adjust"
    /\ error = SomeError
    /\ Len(history) = 2
    /\ historyIndex = 0
    /\ pending = NoReq
\* C15: handleApiResponse gives exactly one outcome, by this priority: a block
\* reason gives the blocked error with that reason, even when the response has an
\* image part; otherwise the first image part is returned; otherwise a finish
\* reason other than STOP gives the stopped error; otherwise the no-image error.
C15_ResponsePriority ==
    outcome # NoOutcome =>
        LET parts == IF response.candidates = <<>> THEN <<>>
                     ELSE response.candidates[1].parts
            images == {i \in DOMAIN parts : "inlineData" \in DOMAIN parts[i]}
            finish == IF response.candidates = <<>> THEN ""
                      ELSE response.candidates[1].finishReason
        IN  /\ outcome.kind \in {"blocked", "image", "stopped", "noImage"}
            /\ outcome.kind = "blocked" <=> response.blockReason # ""
            /\ outcome.kind = "blocked" => outcome.reason = response.blockReason
            /\ outcome.kind = "image" <=> (response.blockReason = "" /\ images # {})
            /\ outcome.kind = "image" =>
                   \E i \in images : /\ outcome.data = parts[i].inlineData
                                      /\ \A j \in images : i <= j
            /\ outcome.kind = "stopped" <=>
                   (response.blockReason = "" /\ images = {} /\ finish \notin {"", "STOP"})
            /\ outcome.kind = "stopped" => outcome.reason = finish

\* a blocked response that also carries an image part was reported as blocked
C15_Witness ==
    /\ outcome.kind = "blocked"
    /\ response.candidates # <<>>
    /\ \E i \in DOMAIN response.candidates[1].parts :
           "inlineData" \in DOMAIN response.candidates[1].parts[i]
\* a crop is applied to a selection with pixels
CropOfPositiveSelection ==
    /\ lastOp' = "commitCrop"
    /\ completedCrop[1] > 0
    /\ completedCrop[2] > 0

\* C16: every version committed after the upload (from a generation result or
\* from a crop of a selection with pixels) has exactly the width and height of
\* the output size in force when it is committed.
C16_CommittedAtOutputSize ==
    [][(lastOp' \in GenerationCommits \/ CropOfPositiveSelection) =>
        dims'[history'[Len(history')]] = outputSize]_vars

\* C16 amended: every version committed from a generation result has exactly
\* the width and height of the output size that was set when its request was
\* submitted, and that size was set.
C16_ResampledToSubmittedSize ==
    [][lastOp' \in GenerationCommits =>
        /\ pending.size # NoSize
        /\ dims'[history'[Len(history')]] = pending.size
        /\ Len(dims') = Len(dims) + 1]_vars

\* a result was resampled to a width typed into the output-size field
C16_Witness ==
    /\ lastOp = "commitAdjust"
    /\ outputSize = <<7, 2>>
    /\ dims[history[Len(history)]] = <<7, 2>>

\* C17 as claimed: the version committed by applying a crop (of a selection with
\* pixels) has the width and height of the current output size.
C17_CropHasOutputSize ==
    [][CropOfPositiveSelection =>
        /\ outputSize # NoSize
        /\ dims'[history'[Len(history')]] = outputSize]_vars

\* C17 amended: the version committed by applying a crop has the width and
\* height of the selection times the device pixel ratio, whatever the output
\* size is, and the output size stays as it was.
C17_CropHasSelectionSize ==
    [][lastOp' = "commitCrop" =>
        /\ dims'[history'[Len(history')]] =
               <<completedCrop[1] * devicePixelRatio, completedCrop[2] * devicePixelRatio>>
        /\ outputSize' = outputSize]_vars

\* a selection smaller than the output size was applied
C17_Witness ==
    /\ lastOp = "commitCrop"
    /\ outputSize = <<2, 2>>
    /\ dims[history[Len(history)]] = <<1, 1>>
\* C18: the output size, whenever set, has a positive width and height after
\* any edits of the two fields; stated here by its consequence: no generation
\* request in flight carries an output size with a width or height of 0.
C18_NoRequestWithZeroSize ==
    pending.kind \in Kinds => (pending.size[1] > 0 /\ pending.size[2] > 0)
DownscaleChosen ==
    /\ isSizeWarningModalOpen
    /\ ~isSizeWarningModalOpen'
    /\ lastOp' \in {"uploadResized", "failed"}

\* C20: for every image with an edge above the threshold whose downscale the
\* user chooses, the history starts with a first version whose longer edge is
\* exactly 2048 and whose shorter edge is within 1 pixel of
\* shorter * 2048 / longer, both positive, and the output size is that size.
C20_DownscaleToThreshold ==
    [][DownscaleChosen =>
        LET file == fileToProcess
            version == outputSize'
            wide == file[1] > file[2]
            longer == IF wide THEN file[1] ELSE file[2]
            shorter == IF wide THEN file[2] ELSE file[1]
            newLonger == IF wide THEN version[1] ELSE version[2]
            newShorter == IF wide THEN version[2] ELSE version[1]
        IN  /\ lastOp' = "uploadResized"
            /\ Len(history') = 1
            /\ version = dims'[history'[1]]
            /\ newLonger = MAX_IMAGE_DIMENSION
            /\ longer * (newShorter - 1) <= shorter * MAX_IMAGE_DIMENSION
            /\ shorter * MAX_IMAGE_DIMENSION <= longer * (newShorter + 1)
            /\ version[1] > 0
            /\ version[2] > 0]_vars

\* C21: between uploads the prompt ledger only grows at its end: after every
\* step that is not an upload or Upload New (a commit with its tail truncation,
\* undo, redo, reset, crop, a failed generation, anything else) the ledger before
\* the step is a prefix of the ledger after it; an upload and Upload New empty it.
C21_LedgerAppendOnly ==
    [][/\ lastOp' \notin Uploads =>
            /\ Len(promptHistory') >= Len(promptHistory)
            /\ SubSeq(promptHistory', 1, Len(promptHistory)) = promptHistory
       /\ lastOp' \in Uploads => promptHistory' = <<>>]_vars

\* a commit that discarded the redo tail, with both instructions still recorded
C21_Witness ==
    /\ lastOp \in GenerationCommits
    /\ history = <<1, 3>>
    /\ Len(promptHistory) = 2

\* C22: the step that commits a generation result appends exactly one entry to
\* the ledger, made of the kind of the operation and the instruction text that
\* was submitted; a crop commit and a failed call leave the ledger as it was.
C22_OneEntryPerGeneration ==
    [][/\ lastOp' \in GenerationCommits =>
            /\ promptHistory' =
                 Append(promptHistory, [type |-> pending.kind, prompt |-> pending.prompt])
            /\ history'[Len(history')] = nextId
       /\ lastOp' \in {"commitCrop", "failed"} => promptHistory' = promptHistory]_vars

C22_Witness ==
    /\ lastOp = "commitRetouch"
    /\ promptHistory = <<[type |-> "retouch", prompt |-> "p"]>>
    /\ Len(history) = 2

\* C23: the stroke's end sets each layer's flag to true exactly when that layer
\* has a sample with alpha > 0; so the edit flag is true after the end of a
\* stroke whose last segment was painted by the brush, and false after the end
\* of an eraser stroke that left no painted sample; clearing resets both flags
\* and both layers.
C23_FlagsFollowContent ==
    [][/\ lastOp' = "strokeEnd" =>
            /\ hasEditMask' = (editMask' # {})
            /\ hasPreserveMask' = (preserveMask' # {})
            /\ UNCHANGED <<editMask, preserveMask>>
       /\ (lastOp = "brush" /\ lastOp' = "strokeEnd") => hasEditMask'
       /\ (lastOp = "erase" /\ editMask = {} /\ lastOp' = "strokeEnd") => ~hasEditMask'
       /\ lastOp' = "clearMasks" =>
            /\ ~hasEditMask' /\ ~hasPreserveMask'
            /\ editMask' = {} /\ preserveMask' = {}]_vars

\* the prompt could only be typed while the edit flag was true; an eraser stroke
\* has since removed every painted sample of the edit layer, not of the other
C23_Witness ==
    /\ lastOp = "strokeEnd"
    /\ maskTool = "eraser"
    /\ prompt = "p"
    /\ ~hasEditMask
    /\ hasPreserveMask

\* C24: a mask layer is exported as null when no sample of it has alpha > 0 once
\* stretched to the image's natural size, and otherwise as a raster of exactly
\* naturalWidth x naturalHeight, whatever the size of the canvas on screen; when
\* the edit layer exports as null, no call is made and nothing is committed.
C24_ExportAtNaturalSize ==
    [][/\ (pending = NoReq /\ pending'.kind = "retouch") =>
            LET natural == dims[currentImage]
            IN  /\ editMask # {}
                /\ pending'.editMaskFile = [size |-> natural, alpha |-> editMask]
                /\ pending'.preserveMaskFile =
                     IF hasPreserveMask /\ preserveMask # {}
                     THEN [size |-> natural, alpha |-> preserveMask]
                     ELSE NoMaskFile
                /\ natural \in MaskImageSizes \cup ImageSizes
       /\ lastOp' = "abandoned" =>
            /\ editMask = {}
            /\ pending = NoReq /\ pending' = NoReq
            /\ ~isLoading'
            /\ error' = SomeError
            /\ UNCHANGED <<history, historyIndex, promptHistory, dims, nextId>>
       /\ (editMask = {} /\ pending = NoReq) => pending'.kind # "retouch"]_vars

\* a request whose masks were exported at 1600 x 1200 from canvases of 400 x 300
C24_Witness ==
    /\ pending.kind = "retouch"
    /\ canvasSize = <<400, 300>>
    /\ pending.editMaskFile = [size |-> <<1600, 1200>>, alpha |-> {1}]
    /\ pending.preserveMaskFile = [size |-> <<1600, 1200>>, alpha |-> {2}]

\* C25: a brush segment changes the edit layer only and only adds to it: every
\* sample of the edit layer with alpha > 0 before it has alpha > 0 after it, the
\* segment's samples are added, and the preserve layer is unchanged.
C25_BrushOnlyAdds ==
    [][lastOp' = "brush" =>
        /\ editMask \subseteq editMask'
        /\ \E cover \in BrushCovers \cup StrokeCovers : editMask' = editMask \cup cover
        /\ preserveMask' = preserveMask]_vars

\* the brush painted sample 1 over a preserve layer that covers it
C25_Witness ==
    /\ lastOp = "brush"
    /\ editMask = {1}
    /\ preserveMask = {1, 2}

\* C26: an eraser segment is applied to both layers: afterwards no sample under
\* it has alpha > 0 in either layer, whichever tool painted it, and the samples
\* outside it are as they were in both layers.
C26_EraserClearsBothLayers ==
    [][(lastOp' = "erase" /\ maskTool = "eraser") =>
        \E cover \in BrushCovers \cup StrokeCovers :
            /\ editMask' = editMask \ cover
            /\ preserveMask' = preserveMask \ cover]_vars

\* sample 1 was erased from both layers (both flags still say painted), sample 2
\* stays in both
C26_Witness ==
    /\ lastOp = "erase"
    /\ maskTool = "eraser"
    /\ hasEditMask /\ hasPreserveMask
    /\ editMask = {2}
    /\ preserveMask = {2}

\* C27: a successful magic-preserve click replaces the preserve layer: afterwards
\* the preserve layer covers exactly the white region of the raster that the
\* segmentation call returned and nothing else, whatever it held before, and the
\* edit layer is unchanged.
C27_PreserveIsWhiteRegion ==
    [][(lastOp' = "maskDrawn" /\ CanvasesMounted) =>
        /\ \E raster \in ObjectRasters \cup MaskRasters : preserveMask' = raster.white
        /\ editMask' = editMask]_vars

\* C28: the two layers are never subtracted from one another: painting the edit
\* layer over preserved samples leaves the preserve layer as it was, replacing
\* the preserve layer leaves the edit layer as it was, and the exported edit
\* mask holds every sample of the edit layer, those under the preserve layer
\* included.
C28_NoSubtractionBetweenLayers ==
    [][/\ lastOp' = "brush" => preserveMask' = preserveMask
       /\ lastOp' = "maskDrawn" => editMask' = editMask
       /\ (pending = NoReq /\ pending'.kind = "retouch") =>
            /\ pending'.editMaskFile.alpha = editMask
            /\ (editMask \cap preserveMask) \subseteq pending'.editMaskFile.alpha
            /\ UNCHANGED <<editMask, preserveMask>>]_vars

\* sample 2 is in both layers and in both exported masks
C28_Witness ==
    /\ pending.kind = "retouch"
    /\ editMask = {2}
    /\ preserveMask = {1, 2}
    /\ 2 \in pending.editMaskFile.alpha
    /\ 2 \in pending.preserveMaskFile.alpha

\* C29: whenever the mask canvases exist, their width and height attributes equal
\* the displayed width and height of the current image: after an image load, a
\* viewport resize, a return to the retouch tab and the dismissal of an error.
C29_CanvasMatchesDisplay == CanvasesMounted => canvasSize = displaySize

\* C30: when the upstream call succeeds the proxy answers 200 with the
\* upstream's JSON body unchanged; when the upstream answers with a failure
\* status the proxy answers with that same status and a body with an error field.
C30_StatusMatchesUpstream ==
    (proxyResponse # NoReply /\ UpstreamCalled(request) /\ geminiResponse.kind = "answer") =>
        IF ok(geminiResponse)
        THEN geminiResponse.body.json =>
                proxyResponse = [status |-> 200, body |-> geminiResponse.body.value]
        ELSE /\ proxyResponse.status = geminiResponse.status
             /\ "error" \in DOMAIN proxyResponse.body

\* C31: the proxy calls the upstream only when the method is POST, the
\* credential is configured and the request has both model and contents; the
\* three checks are made in that order and answer 405, 500 and 400, each with
\* an error body.
C31_ChecksBeforeUpstream ==
    proxyResponse # NoReply =>
        LET complete == /\ request.body.present
                        /\ request.body.model # ""
                        /\ request.body.contents # ""
            refused(status) == /\ proxyResponse.status = status
                               /\ "error" \in DOMAIN proxyResponse.body
                               /\ ~fetched
        IN  /\ fetched => (request.method = "POST" /\ request.hasKey /\ complete)
            /\ request.method # "POST" => refused(405)
            /\ (request.method = "POST" /\ ~request.hasKey) => refused(500)
            /\ (request.method = "POST" /\ request.hasKey /\ ~complete) => refused(400)

\* C32: a crop applied to a selection of positive width and height reads the
\* source rectangle x, y, width, height of the selection scaled by
\* naturalWidth / displayedWidth and naturalHeight / displayedHeight, draws it
\* on a raster of selection width * devicePixelRatio by selection height *
\* devicePixelRatio, and commits that raster as the new current version in
\* place of any redo tail.
C32_CropReadsScaledRectangle ==
    [][(lastOp' = "commitCrop" /\ completedCrop[1] > 0 /\ completedCrop[2] > 0) =>
        LET natural == dims[currentImage]
            new == history'[Len(history')]
            equal(q, k, n, d) == q[1] * d = k * n * q[2]
        IN  /\ equal(cropDraw'.sx, completedCrop[3], natural[1], displaySize[1])
            /\ equal(cropDraw'.sy, completedCrop[4], natural[2], displaySize[2])
            /\ equal(cropDraw'.sWidth, completedCrop[1], natural[1], displaySize[1])
            /\ equal(cropDraw'.sHeight, completedCrop[2], natural[2], displaySize[2])
            /\ cropDraw'.canvas = <<completedCrop[1] * devicePixelRatio,
                                    completedCrop[2] * devicePixelRatio>>
            /\ dims'[new] = cropDraw'.canvas
            /\ \A k \in 1..Len(history) : history[k] # new
            /\ history' = Append(SubSeq(history, 1, historyIndex + 1), new)
            /\ historyIndex' = Len(history') - 1]_vars

\* a second crop, taken after an undo at x = 1 of a 4x2 image laid out at 2x1,
\* has replaced the first one
C32_Witness ==
    /\ lastOp = "commitCrop"
    /\ displaySize = <<2, 1>>
    /\ cropDraw.sx = <<4, 2>>
    /\ cropDraw.sWidth = <<4, 2>>
    /\ cropDraw.canvas = <<1, 1>>
    /\ history = <<1, 3>>
    /\ historyIndex = 1

\* C33: while the selected tool is magic-preserve, a pointer down or a pointer
\* movement changes neither mask layer, also when the tool was switched to
\* magic-preserve in the middle of a stroke begun with the brush or the eraser.
C33_MagicPreserveNeverPaints ==
    [][(/\ maskTool = "magic-preserve"
        /\ \/ lastOp' \in {"brush", "erase"}
           \/ (~isDrawing /\ isDrawing')) =>
            (editMask' = editMask /\ preserveMask' = preserveMask)]_vars

\* C34: whenever no stroke is in progress, hasEditMask is true exactly when the
\* edit layer has a sample with alpha > 0 and hasPreserveMask exactly when the
\* preserve layer has one, after any sequence of strokes, clears, magic-preserve
\* replacements, viewport resizes, tab switches, error dismissals, commits and
\* navigation.
C34_FlagsMatchLayers ==
    ~isDrawing =>
        /\ hasEditMask = checkCanvasContent(editMask)
        /\ hasPreserveMask = checkCanvasContent(preserveMask)

\* C35: after an upload the version at index 0 is the uploaded image and stays
\* so until the next upload: no commit, undo, redo, reset, crop or late
\* generation response changes or replaces the version at index 0.
C35_OriginalFixedUntilUpload ==
    [][(lastOp' \notin {"upload", "uploadResized"} /\ history' # <<>>) =>
            (history # <<>> /\ originalImage' = originalImage)]_vars

\* C36: in every reachable state the output size is set exactly when the
\* history is not empty, also after uploadNew or a fresh upload made while a
\* generation call is outstanding and after that call's response has arrived.
C36_OutputSizeIffHistory ==
    (outputSize # NoSize) <=> (history # <<>>)

\* C37: a version committed from a generation result is placed immediately
\* after the version that was sent as the base image of the request: at the
\* commit the version at index - 1 is that base image, whatever navigation
\* happened while the call was outstanding.
C37_CommitFollowsBaseImage ==
    [][lastOp' \in GenerationCommits =>
        LET baseImage == ImageAt(pending.hist, pending.idx)
        IN  /\ baseImage # 0
            /\ historyIndex' >= 1
            /\ ImageAt(history', historyIndex' - 1) = baseImage
            /\ currentImage' = nextId]_vars

\* a result made from version 2 has been committed and stands right after it
C37_Witness ==
    /\ lastOp \in GenerationCommits
    /\ history = <<1, 2, 3>>
    /\ historyIndex = 2

\* C38: a Segmentation Service result is written to the preserve layer only
\* while the current version is still the image that was clicked: after an
\* undo, redo, reset or upload between the click and the drawing of the
\* returned mask, the preserve layer and hasPreserveMask are left as they were.
C38_MaskDrawnOnClickedImageOnly ==
    [][(/\ pending.kind = "mask"
        /\ pending' = NoReq
        /\ currentImage # ImageAt(pending.hist, pending.idx)) =>
            (preserveMask' = preserveMask /\ hasPreserveMask' = hasPreserveMask)]_vars

\* C39: in the adjustment panel at most one of the selected preset and the
\* custom instruction is not empty, so Aplicar Ajuste submits the instruction
\* chosen last; in particular a custom instruction re-loaded from the prompt
\* ledger while a preset is selected is the one it submits.
C39_OneInstructionAtATime ==
    /\ ~(selectedPresetPrompt # NoPreset /\ customAdjustmentPrompt # "")
    /\ (lastOp = "selectHistoryItem" /\ activeTab = "adjust") =>
            activePrompt = customAdjustmentPrompt
====
